---- MODULE Spec2Model ----
(***************************************************************************)
(* State machine of fntags.js: observable states (fnstate), bindings       *)
(* (fnbind), the element-id tagger and the router built on top of them.    *)
(*                                                                         *)
(* JavaScript arrays are 0-based, TLA+ sequences 1-based: slot i of the    *)
(* observers array is element i+1 of the sequence modelling it.            *)
(***************************************************************************)
EXTENDS Integers, Sequences, FiniteSets, TLC

\* ------------------------------------------------------------------ bounds
MaxHandles == 2
MaxNodes == 4
MaxPathLen == 5
MaxRootLen == 2
MaxRouterHandles == 2
MaxRouterNodes == 7
MaxHistory == 2
MaxChildren == 2
MaxDepth == 3

\* ------------------------------------------------------------- value space
StateIds == {"s1", "s2"}
Keys == {"a"}
Vals == {"v1", "v2"}
Absent == "absent"
None == 0            \* no node (undefined / null)
NoTag == -1          \* getElId of an untagged node (false)
Hole == 0            \* a deleted slot of the observers array (undefined)
Root == 0            \* the root element given to fnapp
\* node identities; a call that would create a node past MaxNodes (past
\* MaxRouterNodes in the router) is not taken, the identities above only
\* hold the nodes such a call makes before it is dropped
Nodes == 1..(MaxNodes + MaxRouterNodes + MaxRouterHandles * MaxChildren)
PathState == "pathState"      \* the router's own fnstate, line 274
AllStates == StateIds \cup {PathState}

\* What the bound render / update function does when it is called:
\*   fresh    element is a function building a new node on every call
\*   same     element is a function returning one cached node
\*   patch    element is a node, update patches it and returns undefined
\*   patchcur element is a node, update returns the node it was handed
\*   route    the render function of route( ... ), line 205
\*   switch   the render function of routeSwitch( ... ), lines 252-265
FnKinds == {"fresh", "same"}
NodeKinds == {"patch", "patchcur"}
BindStates == {<<"s1">>, <<"s1", "s2">>}

VARIABLES
    target,     \* [StateIds -> [Keys -> Vals \cup {Absent}]]: the proxied objects
    given,      \* the mapping each fnstate was constructed from, as it was then
    observers,  \* [AllStates -> Seq(handle \cup {Hole})]: fnstate's observers
    handles,    \* Seq of [kind, states, element, path, absolute, children]:
                \* what each fnbind and its render function closed over
    current,    \* Seq of nodes: el.current of each handle
    htag,       \* Seq of ids: the tag tagElement put on each handle object
    tag,        \* [Nodes -> id \cup {NoTag}]: _fn_element_info of each node
    lastId,     \* the tagger's counter
    nextNode,   \* number of nodes created so far
    kids,       \* [{Root} \cup Nodes -> Seq(Nodes)]: child lists of the DOM
    attr,       \* [Nodes -> [path, absolute]]: the path attribute ("" when it has
                \* none) and the absolute property of each node
    resetAt,    \* [StateIds -> number of handles made before the state's last reset]
    info,       \* pathState.info: [rootPath, currentRoute]
    location,   \* window.location.pathname
    history,    \* the paths handed to history.pushState, oldest first
    last,       \* record of the last operation and of each observer call in it
    stack       \* the notifications in progress, outermost first, when a
                \* notification is followed observer by observer

vars == <<target, given, observers, handles, current, htag, tag, lastId,
          nextNode, kids, attr, resetAt, info, location, history, last, stack>>

routerVars == <<info, location, history>>

\* ---------------------------------------------------------------- helpers
Range(f) == {f[i] : i \in DOMAIN f}

Remove(seq, n) == SelectSeq(seq, LAMBDA x : x # n)

IndexOf(seq, n) == IF \E i \in DOMAIN seq : seq[i] = n
                   THEN CHOOSE i \in DOMAIN seq : seq[i] = n
                   ELSE 0

\* ------------------------------------------------------------------ strings
\* A string is the sequence of its characters.
Alphabet == {"/", "a", "b"}

Strings(n) == UNION {[1..len -> Alphabet] : len \in 0..n}

startsWith(s, w) == Len(w) <= Len(s) /\ SubSeq(s, 1, Len(w)) = w

endsWith(s, w) == Len(w) <= Len(s) /\ SubSeq(s, Len(s) - Len(w) + 1, Len(s)) = w

\* part.slice( 0, -1 )
dropLast(s) == SubSeq(s, 1, Len(s) - 1)

ensureSlashKeepsTail(part) ==
    IF startsWith(part, <<"/">>) THEN part ELSE <<"/">> \o part

\* lines 269-272
ensureSlash(part) ==
    LET p == IF startsWith(part, <<"/">>) THEN part ELSE <<"/">> \o part
    IN IF endsWith(p, <<"/">>) THEN dropLast(p) ELSE p

\* index of the last "/" of s, 0 when it has none
lastSlash(s) ==
    IF \E i \in DOMAIN s : s[i] = "/"
    THEN CHOOSE i \in DOMAIN s : s[i] = "/" /\ \A j \in DOMAIN s : j > i => s[j] # "/"
    ELSE 0

\* w stands in s from position i on
standsAt(s, i, w) == i + Len(w) - 1 <= Len(s) /\ SubSeq(s, i, i + Len(w) - 1) = w

\* ([/?#]|$) at position i of s
boundaryAt(s, i) == i = Len(s) + 1 \/ (i <= Len(s) /\ s[i] \in {"/", "?", "#"})

\* currPath.match( pattern ) for the pattern line 301 builds out of path:
\* the text before path's last "/", an optional "/", the text after it and
\* a boundary, found anywhere in currPath; a path without "/" is left as it
\* is, and the alphabet has no regular-expression metacharacter
matchesPattern(currPath, path) ==
    IF lastSlash(path) = 0
    THEN \E i \in 1..(Len(currPath) + 1) : standsAt(currPath, i, path)
    ELSE LET before == SubSeq(path, 1, lastSlash(path) - 1)
             after == SubSeq(path, lastSlash(path) + 1, Len(path))
         IN \E i \in 1..(Len(currPath) + 1) :
               /\ standsAt(currPath, i, before)
               /\ \/ /\ standsAt(currPath, i + Len(before), <<"/">> \o after)
                     /\ boundaryAt(currPath, i + Len(before) + 1 + Len(after))
                  \/ /\ standsAt(currPath, i + Len(before), after)
                     /\ boundaryAt(currPath, i + Len(before) + Len(after))

shouldDisplayRouteAsRelative(route, isAbsolute, inf, currPath) ==
    matchesPattern(currPath, inf.rootPath \o ensureSlash(route))

\* lines 295-305, reading pathState.info as inf and the browser path as currPath
shouldDisplayRoute(route, isAbsolute, inf, currPath) ==
    LET path == inf.rootPath \o ensureSlash(route)
    IN IF isAbsolute
       THEN currPath = path \/ currPath = path \o <<"/">>
       ELSE matchesPattern(currPath, path)

\* ------------------------------------------------------------------- tagger
isTagged(tg, n) == n # None /\ tg[n] # NoTag

getElId(tg, n) == IF isTagged(tg, n) THEN tg[n] ELSE NoTag

\* ---------------------------------------------------------------------- DOM
HasParent(k, n) == \E c \in DOMAIN k : n \in Range(k[c])

ParentOf(k, n) == CHOOSE c \in DOMAIN k : n \in Range(k[c])

InDom(k, n) == HasParent(k, n)

replaceWithNothing(k, old, new) == k

\* ChildNode.replaceWith: nothing happens to a node without a parent
replaceWith(k, old, new) ==
    IF ~HasParent(k, old) \/ old = new THEN k
    ELSE LET p == ParentOf(k, old)
             r == [c \in DOMAIN k |-> Remove(k[c], new)]
         IN [r EXCEPT ![p] = [i \in DOMAIN r[p] |->
                                 IF r[p][i] = old THEN new ELSE r[p][i]]]

\* ParentNode.append: a node already in the tree is moved
append(k, c, n) ==
    LET r == [d \in DOMAIN k |-> Remove(k[d], n)]
    IN [r EXCEPT ![c] = Append(r[c], n)]

\* ------------------------------------------------------- the running call
\* The mutable world threaded through one synchronous call chain:
\*   tgt   the proxied object of the state being notified
\*   obs   that state's observers array
\*   cur, tag, lastId, nextNode, kids, attr   as the variables of the same name
\*   inf, loc   pathState.info and window.location.pathname as the call reads them
\*   log   one entry per observer invoked
\*   evals the children the last routeSwitch render function rendered
\*   threw the error that ended the call ("none" while it runs)
World(tgt, obs, inf, loc) ==
    [tgt |-> tgt, obs |-> obs, cur |-> current, tag |-> tag,
     lastId |-> lastId, nextNode |-> nextNode, kids |-> kids, attr |-> attr,
     inf |-> inf, loc |-> loc, log |-> <<>>, evals |-> <<>>, threw |-> "none"]

Machine(s) == World(target[s], observers[s], info, location)

Ok(m, el) == [m |-> m, el |-> el, err |-> "none"]

Throw(m, e) == [m |-> m, el |-> None, err |-> e]

\* document.createElement / createTextNode: the new node is m.nextNode + 1
createNode(m) == [m EXCEPT !.nextNode = @ + 1]

NoAttrs == [path |-> <<>>, absolute |-> FALSE]

\* h( 'div', attrs ): a new node carrying a path attribute and an absolute property
createWith(m, path, absolute) ==
    [m EXCEPT !.nextNode = @ + 1,
              !.attr[m.nextNode + 1] = [path |-> path, absolute |-> absolute]]

tagElement(m, n) ==
    IF m.tag[n] = NoTag
    THEN [m EXCEPT !.tag[n] = m.lastId, !.lastId = @ + 1]
    ELSE m

\* renderElement on what a render function handed back: a node, or nothing
renderElement(m, el) ==
    IF el = None THEN Throw(m, "MissingChild") ELSE Ok(m, el)

AccessorCloning(h, m) ==
    IF handles[h].kind = "fresh"
    THEN Ok([createNode(m) EXCEPT !.cur[h] = m.nextNode + 1], m.nextNode + 1)
    ELSE LET c == IF m.cur[h] = handles[h].element THEN m.nextNode + 1
                  ELSE handles[h].element
         IN Ok([createNode(m) EXCEPT !.cur[h] = c], c)

\* line 53 for an element that is a function: e is what element( state )
\* did, renderElement takes its result, which is kept as el.current
renderResult(e) == IF e.err # "none" THEN e ELSE renderElement(e.m, e.el)

\* el.current = ... of line 53
keepCurrent(h, r) ==
    IF r.err # "none" THEN r ELSE Ok([r.m EXCEPT !.cur[h] = r.el], r.el)

Rendered(h, e) == keepCurrent(h, renderResult(e))

\* the render function of route( ... ), line 205: the container built once,
\* or a new marker carrying the route's path and absolute
RouteElement(h, m) ==
    IF shouldDisplayRoute(handles[h].path, handles[h].absolute, m.inf, m.loc)
    THEN Ok(m, handles[h].element)
    ELSE Ok(createWith(m, handles[h].path, handles[h].absolute), m.nextNode + 1)

\* renderElement( child ) of line 257: a child that is a function (the
\* accessor of a route) is called, a child that is a node is its own rendering
RenderChild(c, m) ==
    IF c.acc # 0 THEN Rendered(c.acc, RouteElement(c.acc, m)) ELSE Ok(m, c.node)

\* lines 258-259 on the rendered child
childMatches(m, n) ==
    /\ m.attr[n].path # <<>>
    /\ shouldDisplayRoute(m.attr[n].path, m.attr[n].absolute, m.inf, m.loc)

\* for( let child of children ), lines 256-264, from child i on
RECURSIVE SwitchLoop(_, _, _)

\* child i has been evaluated
Evaluated(r, i) == [r EXCEPT !.m.evals = Append(@, i)]

\* lines 258-263 with r the rendering of child i
SwitchStep(h, i, r) ==
    IF r.err # "none" THEN r
    ELSE IF childMatches(r.m, r.el)
    THEN Ok([r.m EXCEPT !.kids = append(@, handles[h].element, r.el)],
            handles[h].element)
    ELSE SwitchLoop(h, i + 1, r.m)

SwitchLoop(h, i, m) ==
    IF i > Len(handles[h].children) THEN Ok(m, None)
    ELSE SwitchStep(h, i, Evaluated(RenderChild(handles[h].children[i], m), i))

\* the render function of routeSwitch( ... ), lines 252-265
SwitchElement(h, m) ==
    SwitchLoop(h, 1, [m EXCEPT !.kids[handles[h].element] = <<>>, !.evals = <<>>])

\* element( state ) of a binding whose element is a function
Element(h, m) ==
    CASE handles[h].kind = "fresh" -> Ok(createNode(m), m.nextNode + 1)
      [] handles[h].kind = "route" -> RouteElement(h, m)
      [] handles[h].kind = "switch" -> SwitchElement(h, m)
      [] OTHER -> Ok(m, handles[h].element)

\* the function fnbind returns, lines 52-55
Accessor(h, m) ==
    IF handles[h].kind \in NodeKinds
    THEN Ok([m EXCEPT !.cur[h] = handles[h].element], handles[h].element)
    ELSE Rendered(h, Element(h, m))

\* update( el.current, state ) of a binding whose element is a node
Update(h, m) ==
    IF handles[h].kind = "patchcur" THEN Ok(m, m.cur[h]) ELSE Ok(m, None)

\* newElement of line 81
NewElement(h, m) ==
    IF handles[h].kind \in NodeKinds
    THEN Update(h, m)
    ELSE renderResult(Element(h, m))

\* delete observers[ id ]: a slot inside the array becomes a hole, the
\* length stays; delete observers[ false ] and an index past the end do nothing
deleteSlot(obs, id) ==
    IF id >= 0 /\ id < Len(obs) THEN [obs EXCEPT ![id + 1] = Hole] ELSE obs

NeedsReplaceAlways(curId, newId) == TRUE

NeedsReplace(curId, newId) == curId # newId

\* lines 82-90, entered with newElement a node
Reconcile(h, m, new) ==
    LET m1 == tagElement(m, new)
        old == m1.cur[h]
    IN IF NeedsReplace(getElId(m1.tag, old), getElId(m1.tag, new))
       THEN [m1 EXCEPT !.obs = deleteSlot(@, getElId(m1.tag, old)),
                       !.kids = replaceWith(@, old, new),
                       !.cur[h] = new]
       ELSE m1

Entry(h, arg, m, r, m2) ==
    [h |-> h, arg |-> arg, seen |-> m.tgt, err |-> r.err,
     old |-> m.cur[h], oldTagged |-> isTagged(m.tag, m.cur[h]), new |-> r.el,
     kidsMid |-> r.m.kids, obsMid |-> r.m.obs,
     kidsAfter |-> m2.kids, obsAfter |-> m2.obs, curAfter |-> m2.cur[h],
     evals |-> r.m.evals]

\* lines 82-91 with r what line 81 did
Settle(h, r) ==
    IF r.err # "none" THEN [r.m EXCEPT !.threw = r.err]
    ELSE IF r.el = None THEN r.m
    ELSE Reconcile(h, r.m, r.el)

Logged(h, arg, m, r, m2) == [m2 EXCEPT !.log = Append(@, Entry(h, arg, m, r, m2))]

Observed(h, arg, m, r) == Logged(h, arg, m, r, Settle(h, r))

\* the closure pushed by addObserver (lines 80-91), called with state = arg
Observer(h, arg, m) == Observed(h, arg, m, NewElement(h, m))

\* for( let observer of observers ) observer( args[ 0 ] ): the iterator reads
\* the live array, a hole yields undefined and calling it is a TypeError
RECURSIVE NotifyLoop(_, _, _)
NotifyLoop(arg, i, m) ==
    IF m.threw # "none" \/ i > Len(m.obs) THEN m
    ELSE IF m.obs[i] = Hole THEN [m EXCEPT !.threw = "TypeError"]
    ELSE NotifyLoop(arg, i + 1, Observer(m.obs[i], arg, m))

\* the arguments the Proxy hands its trap: target, property, value
ObjRef(s) == [kind |-> "object", of |-> s]
KeyArg(k) == [kind |-> "key", of |-> k]
ValArg(v) == [kind |-> "value", of |-> v]

Reflect(method, obj, k, v) ==
    IF method = "set" THEN [obj EXCEPT ![k] = v] ELSE [obj EXCEPT ![k] = Absent]

ObserverArgIsValue(args) == args[Len(args)]

ObserverArg(args) == args[1]

\* notify( method )( ...args ), lines 66-72
notify(method, s, k, v, m) ==
    LET args == IF method = "set" THEN <<ObjRef(s), KeyArg(k), ValArg(v)>>
                ELSE <<ObjRef(s), KeyArg(k)>>
        m1 == [m EXCEPT !.tgt = Reflect(method, @, k, v)]
    IN NotifyLoop(ObserverArg(args), 1, m1)

\* ----------------------------------------------------------------- actions
NoOp == [op |-> "none", s |-> "s1", pre |-> <<>>, log |-> <<>>, threw |-> "none",
         arg |-> KeyArg("a"), tgt |-> [k \in Keys |-> Absent], h |-> 0, reInit |-> FALSE,
         ret |-> None, prevRet |-> None,
         route |-> <<>>, absolute |-> FALSE, shown |-> FALSE, evals |-> <<>>,
         hist |-> <<>>, before |-> [s \in AllStates |-> <<>>],
         val |-> [kind |-> "undefined", of |-> 0]]

Init ==
    /\ target = [s \in StateIds |-> [k \in Keys |-> "v1"]]
    /\ given = target
    /\ observers = [s \in AllStates |-> <<>>]
    /\ handles = <<>>
    /\ current = <<>>
    /\ htag = <<>>
    /\ tag = [n \in Nodes |-> NoTag]
    /\ lastId = 0
    /\ nextNode = 0
    /\ kids = [c \in {Root} \cup Nodes |-> <<>>]
    /\ attr = [n \in Nodes |-> NoAttrs]
    /\ resetAt = [s \in StateIds |-> 0]
    /\ location = <<"/">>
    /\ info = [rootPath |-> ensureSlash(location), currentRoute |-> <<"/">>]
    /\ history = <<>>
    /\ last = NoOp
    /\ stack = <<>>

\* What a finished call leaves behind: everything it changed before it
\* returned or threw stays changed.
Commit(s, m) ==
    /\ m.nextNode <= MaxNodes
    /\ target' = [target EXCEPT ![s] = m.tgt]
    /\ observers' = [observers EXCEPT ![s] = m.obs]
    /\ current' = m.cur
    /\ tag' = m.tag
    /\ lastId' = m.lastId
    /\ nextNode' = m.nextNode
    /\ kids' = m.kids
    /\ attr' = m.attr

\* state[ k ] = v through the proxy (line 74)
Set(s, k, v) ==
    LET m == notify("set", s, k, v, Machine(s))
    IN /\ Commit(s, m)
       /\ last' = [NoOp EXCEPT !.op = "set", !.s = s, !.pre = observers[s],
                               !.log = m.log, !.threw = m.threw,
                               !.arg = ValArg(v), !.tgt = Reflect("set", target[s], k, v)]
       /\ UNCHANGED <<given, handles, htag, resetAt, routerVars, stack>>

\* delete state[ k ] through the proxy (line 75)
Delete(s, k) ==
    LET m == notify("deleteProperty", s, k, Absent, Machine(s))
    IN /\ Commit(s, m)
       /\ last' = [NoOp EXCEPT !.op = "delete", !.s = s, !.pre = observers[s],
                               !.log = m.log, !.threw = m.threw,
                               !.arg = KeyArg(k),
                               !.tgt = Reflect("deleteProperty", target[s], k, Absent)]
       /\ UNCHANGED <<given, handles, htag, resetAt, routerVars, stack>>

\* addObserver( el, element, update ) on every state of sts, in order: the
\* handle object is tagged on the first call, one closure is pushed per state
RECURSIVE addObservers(_, _, _)
addObservers(obs, sts, h) ==
    IF sts = <<>> THEN obs
    ELSE addObservers([obs EXCEPT ![Head(sts)] = Append(@, h)], Tail(sts), h)

\* fnbind( state, element, update ), lines 41-56, with valid arguments; the
\* node an element-binding binds and the node a caching render function
\* returns are made by the caller just before
Bind(kind, sts) ==
    LET h == Len(handles) + 1
        elem == IF kind = "fresh" THEN None ELSE nextNode + 1
        made == IF kind = "fresh" THEN nextNode ELSE nextNode + 1
        mark == made + 1
    IN /\ h <= MaxHandles
       /\ mark <= MaxNodes
       /\ handles' = Append(handles, [kind |-> kind, states |-> sts, element |-> elem,
                                      path |-> <<>>, absolute |-> FALSE, children |-> <<>>])
       /\ current' = Append(current, mark)
       /\ htag' = Append(htag, lastId)
       /\ lastId' = lastId + 1
       /\ nextNode' = mark
       /\ observers' = addObservers(observers, sts, h)
       /\ last' = [NoOp EXCEPT !.op = "bind", !.h = h]
       /\ UNCHANGED <<target, given, tag, kids, attr, resetAt, routerVars, stack>>

CommitCall(m, limit) ==
    /\ m.nextNode <= limit
    /\ current' = m.cur
    /\ tag' = m.tag
    /\ lastId' = m.lastId
    /\ nextNode' = m.nextNode
    /\ kids' = m.kids
    /\ attr' = m.attr

\* what the accessor of h returned when the operation just before this one
\* was a call of it too
PrevRet(h) == IF last.op \in {"call", "mount"} /\ last.h = h THEN last.ret ELSE None

\* a call made by application code, outside any notification
CallWorld == World([k \in Keys |-> Absent], <<>>, info, location)

\* application code calls the accessor and drops or keeps the node
Call(h) ==
    LET r == Accessor(h, CallWorld)
    IN /\ h \in DOMAIN handles
       /\ CommitCall(r.m, MaxNodes)
       /\ last' = [NoOp EXCEPT !.op = "call", !.h = h, !.ret = r.el,
                               !.prevRet = PrevRet(h), !.threw = r.err]
       /\ UNCHANGED <<target, given, observers, handles, htag, resetAt, routerVars, stack>>

\* fnapp( root, accessor ), lines 6-13: renderElement calls the accessor and
\* the node it returns is appended to the root; nothing is appended when the
\* accessor throws
Mounting(h, limit) ==
    LET r == Accessor(h, CallWorld)
        m == IF r.err = "none" THEN [r.m EXCEPT !.kids = append(@, Root, r.el)] ELSE r.m
    IN /\ h \in DOMAIN handles
       /\ CommitCall(m, limit)
       /\ last' = [NoOp EXCEPT !.op = "mount", !.h = h, !.ret = r.el,
                               !.prevRet = PrevRet(h), !.threw = r.err,
                               !.evals = r.m.evals]
       /\ UNCHANGED <<target, given, observers, handles, htag, resetAt, routerVars, stack>>

Mount(h) == Mounting(h, MaxNodes)

\* the object fnstate was given: the Proxy wraps initialState itself
\* (line 73), so the closure's initialState is the proxied object
initialState(s, m) == m.tgt

\* Object.assign( p, initialState ): one proxy set per own enumerable key
RECURSIVE assignAll(_, _, _)
assignAll(s, ks, m) ==
    IF ks = {} \/ m.threw # "none" THEN m
    ELSE LET k == CHOOSE x \in ks : TRUE
             v == initialState(s, m)[k]
         IN assignAll(s, ks \ {k},
                      IF v = Absent THEN m ELSE notify("set", s, k, v, m))

resetObserversKept(obs) == obs

resetObservers(obs) == <<>>

\* resetState( state, reinit ), lines 97-100 and 115
Reset(s, reInit) ==
    LET m0 == [Machine(s) EXCEPT !.obs = resetObservers(@)]
        m == IF reInit THEN assignAll(s, Keys, m0) ELSE m0
    IN /\ last.op # "reset" \/ last.s # s
       /\ Commit(s, m)
       /\ resetAt' = [resetAt EXCEPT ![s] = Len(handles)]
       /\ last' = [NoOp EXCEPT !.op = "reset", !.s = s, !.pre = observers[s],
                               !.log = m.log, !.threw = m.threw, !.reInit = reInit]
       /\ UNCHANGED <<given, handles, htag, routerVars, stack>>

\* The binding engine: bindings made, rendered, mounted and notified.
Next ==
    \/ \E s \in StateIds, k \in Keys, v \in Vals : Set(s, k, v)
    \/ \E s \in StateIds, k \in Keys : Delete(s, k)
    \/ \E kind \in FnKinds \cup NodeKinds, sts \in BindStates : Bind(kind, sts)
    \/ \E h \in 1..MaxHandles : Call(h)
    \/ \E h \in 1..MaxHandles : Mount(h)

Spec == Init /\ [][Next]_vars

\* The life of a state: bound, written, reset.
ResetNext ==
    \/ \E s \in StateIds, k \in Keys, v \in Vals : Set(s, k, v)
    \/ \E s \in StateIds, k \in Keys : Delete(s, k)
    \/ \E kind \in FnKinds \cup NodeKinds, sts \in BindStates : Bind(kind, sts)
    \/ \E s \in StateIds, b \in BOOLEAN : Reset(s, b)

ResetSpec == Init /\ [][ResetNext]_vars

\* ------------------------------------------------------------ the renderer
\* The values renderElement can be handed. A number is its integer, NaN is a
\* value of its own whose typeof is "number"; a node value stands for a node
\* the caller has just built; a function value holds what the function returns.
Undefined == [kind |-> "undefined", of |-> 0]

PlainValues ==
    {Undefined, [kind |-> "null", of |-> 0], [kind |-> "nan", of |-> 0],
     [kind |-> "boolean", of |-> 0], [kind |-> "boolean", of |-> 1],
     [kind |-> "object", of |-> 0], [kind |-> "node", of |-> 0]}
        \cup {[kind |-> "number", of |-> n] : n \in {0, 42, -1}}
        \cup {[kind |-> "string", of |-> s] : s \in {"", "x"}}

ValueInputs == PlainValues \cup {[kind |-> "function", of |-> v] : v \in PlainValues}

typeOf(v) ==
    CASE v.kind \in {"number", "nan"} -> "number"
      [] v.kind \in {"null", "node", "object"} -> "object"
      [] OTHER -> v.kind

\* !!v
truthy(v) ==
    CASE v.kind \in {"undefined", "null", "nan"} -> FALSE
      [] v.kind \in {"number", "boolean"} -> v.of # 0
      [] v.kind = "string" -> v.of # ""
      [] OTHER -> TRUE

\* isNode( el ), lines 20-22
isNode(v) == truthy(v) /\ v.kind = "node"

\* badElementType, lines 142-146
badElementType(m) == Throw(m, "InvalidElementType")

\* document.createTextNode
createTextNode(m) == Ok(createNode(m), m.nextNode + 1)

\* element() of line 131 and what lines 132-135 do with its result; el is
\* the node the caller built, for the values that stand for one
renderReturned(m, returned, el) ==
    IF typeOf(returned) = "string" THEN createTextNode(m)
    ELSE IF ~isNode(returned) THEN badElementType(m)
    ELSE Ok(m, el)

\* renderElement( element ), lines 124-140, on any value
renderValue(m, v, el) ==
    IF typeOf(v) # "string" /\ ~truthy(v) THEN Throw(m, "MissingChild")
    ELSE IF typeOf(v) = "string" THEN createTextNode(m)
    ELSE IF typeOf(v) = "function" THEN renderReturned(m, v.of, el)
    ELSE IF isNode(v) THEN Ok(m, el)
    ELSE badElementType(m)

\* the node a value stands for is built before the call
holdsNode(v) == v.kind = "node" \/ (v.kind = "function" /\ v.of.kind = "node")

\* application code hands a value to renderElement; the record of the call
\* keeps in h the number of nodes there were before it
Render(v) ==
    LET m0 == IF holdsNode(v) THEN createNode(CallWorld) ELSE CallWorld
        r == renderValue(m0, v, m0.nextNode)
    IN /\ CommitCall(r.m, MaxNodes)
       /\ last' = [NoOp EXCEPT !.op = "render", !.val = v, !.ret = r.el,
                               !.threw = r.err, !.h = nextNode]
       /\ UNCHANGED <<target, given, observers, handles, htag, resetAt, routerVars, stack>>

RenderNext == \E v \in ValueInputs : Render(v)

RenderSpec == Init /\ [][RenderNext]_vars

\* ------------------------------------------------------------ failing binds
\* an object that fnstate did not make
Raw == "raw"

\* an element argument that is neither a function nor a node
Other == "other"

FailingStateInputs == {<<"s1">>, <<Raw>>, <<"s1", Raw>>, <<Raw, "s1">>, <<"s1", "s2", Raw>>}

\* the states states.reduce reaches before isfnstate fails, lines 45-47
RECURSIVE reached(_)
reached(sts) ==
    IF sts = <<>> \/ Head(sts) = Raw THEN <<>> ELSE <<Head(sts)>> \o reached(Tail(sts))

\* the check of lines 42, 43 and 46 that throws, "none" when all pass
bindError(element, update, sts) ==
    IF element = Other THEN "InvalidBindingTarget"
    ELSE IF element \in NodeKinds /\ ~update THEN "MissingPatchFunction"
    ELSE IF Raw \in Range(sts) THEN "UninitializedState"
    ELSE "none"

\* fnbind( state, element, update ), lines 41-51, on arguments one of its
\* checks rejects. A node given as element was made by the caller. When the
\* checks of lines 42-43 pass, the reduce's initial value { current: marker() }
\* is built and every state before the rejected one gets its observer; the
\* handle object those observers close over is never returned.
BindFailing(element, update, sts) ==
    LET err == bindError(element, update, sts)
        made == IF element \in NodeKinds \cup {"same"} THEN nextNode + 1 ELSE nextNode
        elem == IF element \in NodeKinds \cup {"same"} THEN nextNode + 1 ELSE None
        mark == IF err = "UninitializedState" THEN made + 1 ELSE made
        got == IF err = "UninitializedState" THEN reached(sts) ELSE <<>>
        h == Len(handles) + 1
    IN /\ err # "none"
       /\ mark <= MaxNodes
       /\ nextNode' = mark
       /\ IF got = <<>>
          THEN UNCHANGED <<handles, current, htag, lastId, observers>>
          ELSE /\ h <= MaxHandles
               /\ handles' = Append(handles, [kind |-> element, states |-> got,
                                              element |-> elem, path |-> <<>>,
                                              absolute |-> FALSE, children |-> <<>>])
               /\ current' = Append(current, mark)
               /\ htag' = Append(htag, lastId)
               /\ lastId' = lastId + 1
               /\ observers' = addObservers(observers, got, h)
       /\ last' = [NoOp EXCEPT !.op = "bind", !.threw = err, !.before = observers,
                               !.h = IF got = <<>> THEN 0 ELSE h]
       /\ UNCHANGED <<target, given, tag, kids, attr, resetAt, routerVars, stack>>

\* Binds that succeed and binds that throw, and the writes that follow.
BindNext ==
    \/ \E s \in StateIds, k \in Keys, v \in Vals : Set(s, k, v)
    \/ \E kind \in FnKinds \cup NodeKinds, sts \in BindStates : Bind(kind, sts)
    \/ \E element \in {Other} \cup FnKinds \cup NodeKinds, update \in BOOLEAN,
          sts \in FailingStateInputs : BindFailing(element, update, sts)

BindSpec == Init /\ [][BindNext]_vars

\* ------------------------------------------------- notifications step by step
\* A notification followed one observer at a time, so that an observer whose
\* render function sets the state it is bound to starts a notification inside
\* the one that called it. A frame is one running call of notify: s the
\* state, i the position of its for-of loop, arg what it hands its observers,
\* pre the observers at its start, called the handles it has called, by the
\* handle whose render function made the call (0 for application code).
Setter == "setter"

LoopKinds == FnKinds \cup {Setter}

\* the state a self-setting render function sets: the one it was bound to,
\* the first of them when it was bound to a collection
SetBy(h) == handles[h].states[1]

Frame(s, v, by) ==
    [s |-> s, i |-> 1, arg |-> ObserverArg(<<ObjRef(s), KeyArg("a"), ValArg(v)>>),
     pre |-> observers[s], called |-> <<>>, by |-> by]

Top == stack[Len(stack)]

Outer == SubSeq(stack, 1, Len(stack) - 1)

\* the call application code made is over, returned or thrown out of
Finished(f, err) ==
    [NoOp EXCEPT !.op = "set", !.s = f.s, !.pre = f.pre, !.threw = err,
                 !.log = [i \in DOMAIN f.called |-> [h |-> f.called[i]]]]

\* application code sets state.a: Reflect.set, then the loop of line 68 starts
Begin(s, v) ==
    /\ stack = <<>>
    /\ target' = [target EXCEPT ![s] = Reflect("set", @, "a", v)]
    /\ stack' = <<Frame(s, v, 0)>>
    /\ last' = [NoOp EXCEPT !.op = "begin", !.s = s]
    /\ UNCHANGED <<given, observers, handles, current, htag, tag, lastId, nextNode,
                   kids, attr, resetAt, routerVars>>

\* the loop reads an emptied slot: calling undefined throws a TypeError that
\* nothing catches, every notification in progress is abandoned
VisitHole ==
    /\ stack # <<>>
    /\ Top.i <= Len(observers[Top.s])
    /\ observers[Top.s][Top.i] = Hole
    /\ stack' = <<>>
    /\ last' = Finished(stack[1], "TypeError")
    /\ UNCHANGED <<target, given, observers, handles, current, htag, tag, lastId,
                   nextNode, kids, attr, resetAt, routerVars>>

\* the loop calls an observer whose render function sets no state: the
\* observer runs to its end
VisitObserver ==
    /\ stack # <<>>
    /\ Top.i <= Len(observers[Top.s])
    /\ observers[Top.s][Top.i] # Hole
    /\ handles[observers[Top.s][Top.i]].kind # Setter
    /\ Commit(Top.s, Observer(observers[Top.s][Top.i], Top.arg, Machine(Top.s)))
    /\ stack' = Outer \o <<[Top EXCEPT !.i = @ + 1,
                                       !.called = Append(@, observers[Top.s][Top.i])]>>
    /\ UNCHANGED <<given, handles, htag, resetAt, routerVars, last>>

\* the loop calls an observer whose render function sets state.a before it
\* returns its node: the set trap calls notify, whose loop starts at the
\* first observer, while this observer and this loop wait
VisitSetter ==
    /\ stack # <<>>
    /\ Len(stack) < MaxDepth
    /\ Top.i <= Len(observers[Top.s])
    /\ observers[Top.s][Top.i] # Hole
    /\ handles[observers[Top.s][Top.i]].kind = Setter
    /\ target' = [target EXCEPT ![SetBy(observers[Top.s][Top.i])] =
                                     Reflect("set", @, "a", "v2")]
    /\ stack' = Outer \o <<[Top EXCEPT !.called = Append(@, observers[Top.s][Top.i])],
                           Frame(SetBy(observers[Top.s][Top.i]), "v2",
                                 observers[Top.s][Top.i])>>
    /\ UNCHANGED <<given, observers, handles, current, htag, tag, lastId, nextNode,
                   kids, attr, resetAt, routerVars, last>>

\* a loop has visited the last slot and notify returns: to application code,
\* or into the render function that made the call, which then returns its
\* node to its observer (lines 81-90), and the loop that called it goes on
Return ==
    /\ stack # <<>>
    /\ Top.i > Len(observers[Top.s])
    /\ IF Len(stack) = 1
       THEN /\ stack' = <<>>
            /\ last' = Finished(Top, "none")
            /\ UNCHANGED <<target, observers, current, tag, lastId, nextNode, kids, attr>>
       ELSE /\ Commit(Outer[Len(Outer)].s,
                      Reconcile(Top.by, Machine(Outer[Len(Outer)].s), handles[Top.by].element))
            /\ stack' = SubSeq(Outer, 1, Len(Outer) - 1)
                             \o <<[Outer[Len(Outer)] EXCEPT !.i = @ + 1]>>
            /\ UNCHANGED last
    /\ UNCHANGED <<given, handles, htag, resetAt, routerVars>>

\* Bindings that set their own state and bindings that do not, and the sets
\* application code makes, each followed to its end.
LoopNext ==
    \/ \E kind \in LoopKinds, sts \in BindStates : stack = <<>> /\ Bind(kind, sts)
    \/ \E s \in StateIds, v \in Vals : Begin(s, v)
    \/ VisitHole
    \/ VisitObserver
    \/ VisitSetter
    \/ Return

LoopSpec == Init /\ [][LoopNext]_vars

\* ------------------------------------------------------------------ router
RoutePathInputs == {<<"/", "a">>, <<"/", "b">>}

NavInputs == {<<"/">>, <<"/", "a">>, <<"/", "b">>, <<"a">>}

Routes == {h \in DOMAIN handles : handles[h].kind = "route"}

Switches == {h \in DOMAIN handles : handles[h].kind = "switch"}

\* route( { path, absolute }, ... ), lines 197-206: the container is built,
\* then fnbind makes the placeholder marker and registers on pathState
Route(path, absolute) ==
    LET h == Len(handles) + 1
        routeEl == nextNode + 1
        mark == nextNode + 2
    IN /\ h <= MaxRouterHandles
       /\ mark <= MaxRouterNodes
       /\ handles' = Append(handles, [kind |-> "route", states |-> <<PathState>>,
                                      element |-> routeEl, path |-> path,
                                      absolute |-> absolute, children |-> <<>>])
       /\ attr' = [attr EXCEPT ![routeEl] = [path |-> path, absolute |-> absolute]]
       /\ current' = Append(current, mark)
       /\ htag' = Append(htag, lastId)
       /\ lastId' = lastId + 1
       /\ nextNode' = mark
       /\ observers' = addObservers(observers, <<PathState>>, h)
       /\ last' = [NoOp EXCEPT !.op = "route", !.h = h]
       /\ UNCHANGED <<target, given, tag, kids, resetAt, routerVars, stack>>

\* what routeSwitch can be given as a child: the accessor of a route made
\* before, or an element built in place, with a path attribute or without
ChildInputs ==
    {[acc |-> h, path |-> <<>>] : h \in Routes}
        \cup {[acc |-> 0, path |-> p] : p \in {<<>>, <<"/", "a">>}}

ChildLists ==
    {cs \in UNION {[1..n -> ChildInputs] : n \in 1..MaxChildren} :
        \A i, j \in DOMAIN cs : (i # j /\ cs[i].acc # 0) => cs[i].acc # cs[j].acc}

\* the elements among the first i children are built first, in order
builtBefore(cs, i) == Cardinality({j \in 1..i : cs[j].acc = 0})

\* routeSwitch( ...children ), lines 250-267
RouteSwitch(cs) ==
    LET h == Len(handles) + 1
        made == builtBefore(cs, Len(cs))
        sw == nextNode + made + 1
        mark == sw + 1
        children == [i \in DOMAIN cs |->
                        IF cs[i].acc # 0 THEN [acc |-> cs[i].acc, node |-> None]
                        ELSE [acc |-> 0, node |-> nextNode + builtBefore(cs, i)]]
    IN /\ h <= MaxRouterHandles
       /\ mark <= MaxRouterNodes
       /\ handles' = Append(handles, [kind |-> "switch", states |-> <<PathState>>,
                                      element |-> sw, path |-> <<>>,
                                      absolute |-> FALSE, children |-> children])
       /\ attr' = [n \in Nodes |->
                     IF \E i \in DOMAIN cs : children[i].node = n
                     THEN LET i == CHOOSE i \in DOMAIN cs : children[i].node = n
                          IN [path |-> cs[i].path, absolute |-> FALSE]
                     ELSE attr[n]]
       /\ current' = Append(current, mark)
       /\ htag' = Append(htag, lastId)
       /\ lastId' = lastId + 1
       /\ nextNode' = mark
       /\ observers' = addObservers(observers, <<PathState>>, h)
       /\ last' = [NoOp EXCEPT !.op = "switch", !.h = h]
       /\ UNCHANGED <<target, given, tag, kids, resetAt, routerVars, stack>>

\* each binding is mounted while its node is not in the document
RouterMount(h) ==
    /\ h \in DOMAIN handles
    /\ ~InDom(kids, current[h])
    /\ Mounting(h, MaxRouterNodes)

\* the browser's pathname of an URL whose path part is p
pathname(p) == IF p = <<>> THEN <<"/">> ELSE p

\* pathState.info = Object.assign( pathState.info, ... ): the info object is
\* changed in place and then assigned through the proxy, which notifies
PathWorld(inf, loc) == World([info |-> inf], observers[PathState], inf, loc)

CommitPath(m) ==
    /\ observers' = [observers EXCEPT ![PathState] = m.obs]
    /\ CommitCall(m, MaxRouterNodes)

\* goTo( route ), lines 235-243, for a route without fragment
GoTo(route) ==
    LET newPath == info.rootPath \o ensureSlash(route)
        inf == [info EXCEPT !.currentRoute = route]
        m == notify("set", PathState, "info", inf, PathWorld(inf, pathname(newPath)))
    IN /\ Len(history) < MaxHistory
       /\ history' = Append(history, newPath)
       /\ location' = pathname(newPath)
       /\ info' = inf
       /\ CommitPath(m)
       /\ last' = [NoOp EXCEPT !.op = "goto", !.s = PathState,
                               !.pre = observers[PathState], !.log = m.log,
                               !.threw = m.threw, !.route = route,
                               !.hist = history]
       /\ UNCHANGED <<target, given, handles, htag, resetAt, stack>>

\* The router: routes and switches made, mounted and navigated.
RouterNext ==
    \/ \E path \in RoutePathInputs, absolute \in BOOLEAN : Route(path, absolute)
    \/ \E cs \in ChildLists : RouteSwitch(cs)
    \/ \E h \in 1..MaxRouterHandles : RouterMount(h)
    \/ \E route \in NavInputs : GoTo(route)

RouterSpec == Init /\ [][RouterNext]_vars

\* ------------------------------------------------------------ the predicate
\* The display predicate on its own: every root path setRootPath can leave
\* behind, every browser path, every path attribute.
PathNames == {s \in Strings(MaxPathLen) : startsWith(s, <<"/">>)}

RootPaths == {ensureSlash(s) : s \in Strings(MaxRootLen)}

RouteInputs == {<<"/", "a">>, <<"a">>, <<"/", "a", "/">>, <<"/", "b">>}

PredInit ==
    /\ target = [s \in StateIds |-> [k \in Keys |-> "v1"]]
    /\ given = target
    /\ observers = [s \in AllStates |-> <<>>]
    /\ handles = <<>>
    /\ current = <<>>
    /\ htag = <<>>
    /\ tag = [n \in Nodes |-> NoTag]
    /\ lastId = 0
    /\ nextNode = 0
    /\ kids = [c \in {Root} \cup Nodes |-> <<>>]
    /\ attr = [n \in Nodes |-> NoAttrs]
    /\ resetAt = [s \in StateIds |-> 0]
    /\ location \in PathNames
    /\ \E r \in RootPaths : info = [rootPath |-> r, currentRoute |-> location]
    /\ history = <<>>
    /\ last = NoOp
    /\ stack = <<>>

\* shouldDisplayRoute( route, isAbsolute ) as a route's render function calls it
Display(route, isAbsolute) ==
    /\ last' = [NoOp EXCEPT !.op = "display", !.route = route, !.absolute = isAbsolute,
                            !.shown = shouldDisplayRoute(route, isAbsolute, info, location)]
    /\ UNCHANGED <<target, given, observers, handles, current, htag, tag, lastId,
                   nextNode, kids, attr, resetAt, routerVars, stack>>

PredNext == \E route \in RouteInputs, isAbsolute \in BOOLEAN : Display(route, isAbsolute)

PredSpec == PredInit /\ [][PredNext]_vars

\* ------------------------------------------------------------ the root path
\* The page loaded at any path, then setRootPath called with any string.
StartInit ==
    /\ target = [s \in StateIds |-> [k \in Keys |-> "v1"]]
    /\ given = target
    /\ observers = [s \in AllStates |-> <<>>]
    /\ handles = <<>>
    /\ current = <<>>
    /\ htag = <<>>
    /\ tag = [n \in Nodes |-> NoTag]
    /\ lastId = 0
    /\ nextNode = 0
    /\ kids = [c \in {Root} \cup Nodes |-> <<>>]
    /\ attr = [n \in Nodes |-> NoAttrs]
    /\ resetAt = [s \in StateIds |-> 0]
    /\ location \in PathNames
    /\ info = [rootPath |-> ensureSlash(location), currentRoute |-> <<"/">>]
    /\ history = <<>>
    /\ last = NoOp
    /\ stack = <<>>

\* setRootPath( rootPath ), line 285
SetRootPath(rootPath) ==
    LET inf == [rootPath |-> ensureSlash(rootPath), currentRoute |-> location]
        m == notify("set", PathState, "info", inf, PathWorld(inf, location))
    IN /\ info' = inf
       /\ CommitPath(m)
       /\ last' = [NoOp EXCEPT !.op = "setRootPath", !.s = PathState,
                               !.pre = observers[PathState], !.log = m.log,
                               !.threw = m.threw, !.route = rootPath]
       /\ UNCHANGED <<target, given, handles, htag, resetAt, location, history, stack>>

RootNext == \E rootPath \in Strings(MaxRootLen) : SetRootPath(rootPath)

RootSpec == StartInit /\ [][RootNext]_vars

\* ------------------------------------------------------------------ claims
IsWrite == last.op \in {"set", "delete"}

Called == [i \in DOMAIN last.log |-> last.log[i].h]

Registered == SelectSeq(last.pre, LAMBDA x : x # Hole)

\* C1: a set or delete applies the mutation first, then calls every observer
\* registered on the state at that moment exactly once, in registration
\* order, and returns after the last of them has returned.
C1_EveryObserverRunsInOrder ==
    IsWrite =>
        /\ last.threw = "none"
        /\ Called = Registered
        /\ \A i \in DOMAIN last.log : last.log[i].seen = last.tgt

\* C2 as stated: every observer is handed the value given to the operation,
\* the assigned value of a set and the deleted key of a delete.
C2_ObserverGetsNewValue ==
    IsWrite => \A i \in DOMAIN last.log : last.log[i].arg = last.arg

\* C2, amended: every observer is handed the state's proxied object, already
\* mutated, for a set and for a delete alike.
C2_ObserverGetsTarget ==
    IsWrite =>
        \A i \in DOMAIN last.log :
            /\ last.log[i].arg = ObjRef(last.s)
            /\ last.log[i].seen = last.tgt

C2_Witness ==
    /\ last.op = "set"
    /\ Len(last.log) >= 1
    /\ last.tgt # given[last.s]

Differs(e) == e.err = "none" /\ e.new # None /\ e.new # e.old

\* C3: when the render / update function of a notified binding yields a node
\* other than handle.current, then once the observer has returned the old
\* node is out of the DOM, the new node stands where the old one stood and
\* handle.current is the new node.
C3_ReplacementInvariant ==
    \A i \in DOMAIN last.log :
        LET e == last.log[i]
        IN Differs(e) =>
            /\ ~InDom(e.kidsAfter, e.old)
            /\ e.curAfter = e.new
            /\ InDom(e.kidsMid, e.old) =>
                  LET p == ParentOf(e.kidsMid, e.old)
                      at == IndexOf(e.kidsMid[p], e.old)
                  IN /\ Len(e.kidsAfter[p]) = Len(e.kidsMid[p])
                     /\ e.kidsAfter[p][at] = e.new
                     /\ \A j \in DOMAIN e.kidsMid[p] :
                            j # at => e.kidsAfter[p][j] = e.kidsMid[p][j]

C3_Witness ==
    /\ IsWrite
    /\ \E i \in DOMAIN last.log :
           /\ Differs(last.log[i])
           /\ InDom(last.log[i].kidsMid, last.log[i].old)
           /\ last.log[i].oldTagged

Same(e) == e.err = "none" /\ e.new # None /\ e.new = e.old

\* C4: when the render / update function returns the very node that is
\* handle.current, tagged already or not, the observer replaces nothing: the
\* DOM, handle.current and the observers are as the function left them.
C4_NoOpInvariant ==
    \A i \in DOMAIN last.log :
        LET e == last.log[i]
        IN Same(e) =>
            /\ e.kidsAfter = e.kidsMid
            /\ e.curAfter = e.old
            /\ e.obsAfter = e.obsMid

C4_Witness ==
    /\ IsWrite
    /\ \E i \in DOMAIN last.log :
           /\ Same(last.log[i])
           /\ ~last.log[i].oldTagged
           /\ InDom(last.log[i].kidsMid, last.log[i].old)

TwoCalls == last.op \in {"call", "mount"} /\ last.prevRet # None

C6_ResetDropsObservers ==
    /\ last.op = "reset" => observers[last.s] = <<>> /\ last.log = <<>>
    /\ IsWrite => \A i \in DOMAIN last.log : last.log[i].h > resetAt[last.s]

BoundTo(h, s) == \E i \in DOMAIN handles[h].states : handles[h].states[i] = s

C6_Witness ==
    /\ IsWrite
    /\ Len(last.log) >= 1
    /\ \E h \in 1..resetAt[last.s] : BoundTo(h, last.s)

\* C7: reset( true ) puts the values of the mapping fnstate was given back
\* onto the proxied object, whatever was set or deleted before.
C7_ResetRestoresInitial ==
    (last.op = "reset" /\ last.reInit) => target[last.s] = given[last.s]

Displayed(route, isAbsolute) ==
    last.op = "display" /\ last.route = route /\ last.absolute = isAbsolute

\* C9: with rootPath set to "/", the relative route "/a" is displayed exactly
\* when the browser path is "/a" or lies under "/a/".
C9_RelativeMatchIsPrefix ==
    (Displayed(<<"/", "a">>, FALSE) /\ info.rootPath = ensureSlash(<<"/">>)) =>
        (last.shown <=> \/ location = <<"/", "a">>
                        \/ startsWith(location, <<"/", "a", "/">>))

\* C10: the absolute route "/a" is displayed exactly when the browser path
\* is rootPath + "/a" or that followed by one "/", and so for no deeper path.
C10_AbsoluteMatchIsExact ==
    Displayed(<<"/", "a">>, TRUE) =>
        /\ last.shown <=> location \in {info.rootPath \o <<"/", "a">>,
                                        info.rootPath \o <<"/", "a", "/">>}
        /\ (/\ startsWith(location, info.rootPath \o <<"/", "a", "/">>)
            /\ Len(location) > Len(info.rootPath) + 3)
           => ~last.shown

C10_Witness ==
    /\ Displayed(<<"/", "a">>, TRUE)
    /\ last.shown
    /\ info.rootPath # <<>>
    /\ location = info.rootPath \o <<"/", "a", "/">>

ChildPath(c) == IF c.acc # 0 THEN handles[c.acc].path ELSE attr[c.node].path

ChildAbsolute(c) == IF c.acc # 0 THEN handles[c.acc].absolute ELSE attr[c.node].absolute

\* the rendering of a child that is displayed
ChildShown(c) == IF c.acc # 0 THEN handles[c.acc].element ELSE c.node

Matching(h) ==
    {i \in DOMAIN handles[h].children :
        LET c == handles[h].children[i]
        IN /\ ChildPath(c) # <<>>
           /\ shouldDisplayRoute(ChildPath(c), ChildAbsolute(c), info, location)}

First(S) == CHOOSE i \in S : \A j \in S : i <= j

\* C8: after every change of the route state the container of a routeSwitch
\* holds at most one child, the rendering of the first child in declaration
\* order that carries a path attribute and satisfies the display predicate;
\* no later child is rendered into it and no child after the match is rendered.
C8_FirstMatchWins ==
    last.op = "goto" =>
        \A h \in Switches :
            LET held == kids[handles[h].element]
                cs == handles[h].children
            IN /\ Len(held) <= 1
               /\ Matching(h) = {} => held = <<>>
               /\ Matching(h) # {} => held = <<ChildShown(cs[First(Matching(h))])>>
               /\ \A i \in DOMAIN last.log :
                      (last.log[i].h = h /\ Matching(h) # {}) =>
                          last.log[i].evals = [j \in 1..First(Matching(h)) |-> j]

C8_Witness ==
    /\ last.op = "goto"
    /\ last.threw = "none"
    /\ \E h \in Switches :
           /\ Cardinality(Matching(h)) >= 2
           /\ \E i \in DOMAIN last.log : last.log[i].h = h
           /\ kids[handles[h].element]
                  = <<ChildShown(handles[h].children[First(Matching(h))])>>

\* C11: goTo pushes exactly one history entry at rootPath + the normalized
\* path, sets currentRoute to the given path, and every route and routeSwitch
\* binding registered on pathState has been re-evaluated when goTo returns.
C11_GoToUpdatesEveryBinding ==
    last.op = "goto" =>
        /\ history = Append(last.hist, info.rootPath \o ensureSlash(last.route))
        /\ info.currentRoute = last.route
        /\ \A h \in Routes \cup Switches : h \in Range(Called)

\* a goTo that found bindings registered and returned
C11_Witness ==
    /\ last.op = "goto"
    /\ last.threw = "none"
    /\ Routes # {} /\ Switches # {}
    /\ \A h \in Routes \cup Switches : h \in Range(Called)
    /\ info.currentRoute = last.route
    /\ history = Append(last.hist, info.rootPath \o ensureSlash(last.route))

\* C12: a bind that throws InvalidBindingTarget, MissingPatchFunction or
\* UninitializedState leaves the observer list of every state as it was
\* before the call.
C12_FailedBindLeavesNoObserver ==
    (last.op = "bind" /\ last.threw # "none") => observers = last.before

\* a bind rejected at its first check, which registers nothing
C12_Witness ==
    /\ last.op = "bind"
    /\ last.threw = "InvalidBindingTarget"
    /\ observers = last.before
    /\ \E s \in StateIds : observers[s] # <<>>

Times(seq, x) == Cardinality({i \in DOMAIN seq : seq[i] = x})

\* a handle bound over a collection of more than one state
OverCollection(h) == Len(handles[h].states) > 1

\* C13: a bind over an ordered collection of states registers the one handle
\* exactly once with each of them (and with no other state), and afterwards a
\* set or delete on any one of those states calls that handle's observer
\* exactly once, which leaves el.current at the node the render or patch
\* function returned.
C13_CollectionBindingFollowsEveryState ==
    /\ (last.op = "bind" /\ last.threw = "none" /\ OverCollection(last.h)) =>
           \A s \in StateIds :
               /\ Times(observers[s], last.h) = IF BoundTo(last.h, s) THEN 1 ELSE 0
               /\ BoundTo(last.h, s) => observers[s][Len(observers[s])] = last.h
    /\ IsWrite =>
           \A h \in DOMAIN handles :
               (OverCollection(h) /\ BoundTo(h, last.s)) =>
                   /\ Times(Called, h) = 1
                   /\ \A i \in DOMAIN last.log :
                          (last.log[i].h = h /\ last.log[i].new # None) =>
                              last.log[i].curAfter = last.log[i].new

\* a set on the second state of a collection, which replaced the handle's node
C13_Witness ==
    /\ IsWrite
    /\ last.s = "s2"
    /\ last.threw = "none"
    /\ \E i \in DOMAIN last.log :
           LET e == last.log[i]
           IN /\ OverCollection(e.h)
              /\ handles[e.h].states[2] = last.s
              /\ Differs(e)
              /\ e.curAfter = e.new

\* what rootPath was normalized from: the argument of the last setRootPath,
\* the path the page was loaded at before any
Normalized == IF last.op = "setRootPath" THEN last.route ELSE location

\* C14 (as stated): rootPath, at startup and after any setRootPath, starts
\* with exactly one "/" and does not end with "/" unless it is the bare "/".
C14_RootPathStartsWithOneSlash ==
    /\ startsWith(info.rootPath, <<"/">>)
    /\ ~startsWith(info.rootPath, <<"/", "/">>)
    /\ endsWith(info.rootPath, <<"/">>) => info.rootPath = <<"/">>

\* C14 (amended): the normalized path is the input with a "/" put in front
\* when it had none and one trailing "/" dropped when it then ends with one.
\* It is empty exactly for the inputs "" and "/", otherwise it starts with
\* "/"; it starts with "//" only when the input did and ends with "/" only
\* when the input ended with "//".
C14_RootPathIsInputTrimmedOnce ==
    LET r == info.rootPath
        p == Normalized
    IN /\ \E pre \in {<<>>, <<"/">>}, post \in {<<>>, <<"/">>} : pre \o p = r \o post
       /\ r = <<>> <=> p \in {<<>>, <<"/">>}
       /\ r # <<>> => startsWith(r, <<"/">>)
       /\ startsWith(r, <<"/", "/">>) => startsWith(p, <<"/", "/">>)
       /\ endsWith(r, <<"/">>) => endsWith(p, <<"/", "/">>)

\* setRootPath called with a path that needs both the slash in front and the
\* trailing slash dropped
C14_Witness ==
    /\ last.op = "setRootPath"
    /\ last.route = <<"a", "/">>
    /\ info.rootPath = <<"/", "a">>

\* C15: renderElement rejects undefined and null with MissingChild and
\* every number with InvalidElementType, and produces no node in both cases.
C15_NumbersAreInvalidElementType ==
    last.op = "render" =>
        /\ last.val.kind \in {"undefined", "null"} =>
               (last.threw = "MissingChild" /\ last.ret = None /\ nextNode = last.h)
        /\ typeOf(last.val) = "number" =>
               (last.threw = "InvalidElementType" /\ last.ret = None /\ nextNode = last.h)

\* the number 42 handed to renderElement and rejected
C15_Witness ==
    /\ last.op = "render"
    /\ last.val = [kind |-> "number", of |-> 42]
    /\ last.threw = "InvalidElementType"

\* C16: with no reset in between, the cleanup done on replacement never
\* empties the slot of a live observer: no observer list holds an empty
\* slot, no set or delete ends in the TypeError of calling one, and every
\* handle bound to the written state is called by the write.
C16_CleanupKeepsLiveObservers ==
    /\ \A s \in StateIds : Hole \notin Range(observers[s])
    /\ IsWrite =>
           /\ last.threw # "TypeError"
           /\ \A h \in DOMAIN handles : BoundTo(h, last.s) => h \in Range(Called)

\* a write in which an observer replaced a tagged node, so that the cleanup
\* ran with a real id, and every bound handle was still called
C16_Witness ==
    /\ IsWrite
    /\ last.threw = "none"
    /\ \A h \in DOMAIN handles : BoundTo(h, last.s) => h \in Range(Called)
    /\ \E i \in DOMAIN last.log : Differs(last.log[i]) /\ last.log[i].oldTagged

\* the node n, produced for handle h, is attached only as el.current of h
OnlyCurrent(k, cur, n) == (n # None /\ InDom(k, n)) => cur = n

\* C17: of the nodes produced for one binding handle at most one is attached
\* to the DOM, and an attached one is the handle's el.current. Checked on
\* the nodes two calls of the accessor in a row returned, and on the old and
\* the new node of every observer call.
C17_AttachedNodeIsCurrent ==
    /\ TwoCalls =>
           /\ OnlyCurrent(kids, current[last.h], last.ret)
           /\ OnlyCurrent(kids, current[last.h], last.prevRet)
    /\ IsWrite =>
           \A i \in DOMAIN last.log :
               LET e == last.log[i]
               IN e.err = "none" =>
                      /\ OnlyCurrent(e.kidsAfter, e.curAfter, e.old)
                      /\ OnlyCurrent(e.kidsAfter, e.curAfter, e.new)

\* a mounted binding whose node a notification replaced in the document
C17_Witness ==
    /\ IsWrite
    /\ \E i \in DOMAIN last.log :
           LET e == last.log[i]
           IN /\ Differs(e)
              /\ InDom(e.kidsAfter, e.new)
              /\ ~InDom(e.kidsAfter, e.old)
              /\ e.curAfter = e.new

\* the entries of seq that come after the first x
After(seq, x) == SubSeq(seq, IndexOf(seq, x) + 1, Len(seq))

\* C18: when a change of the route state leaves a routeSwitch without a
\* child to display, the update of the switch empties the container and
\* raises no error, and the observers of the route state registered after
\* the switch are still called.
C18_NoMatchRendersNothing ==
    last.op = "goto" =>
        \A i \in DOMAIN last.log :
            LET e == last.log[i]
            IN (e.h \in Switches /\ Matching(e.h) = {}) =>
                   /\ e.err = "none"
                   /\ e.kidsAfter[handles[e.h].element] = <<>>
                   /\ \A h \in Range(After(last.pre, e.h)) :
                          h # Hole => h \in Range(Called)

\* a route change that took the displayed child out of a mounted switch,
\* with a route registered after the switch
C18_Witness ==
    /\ last.op = "goto"
    /\ \E i \in DOMAIN last.log :
           LET e == last.log[i]
           IN /\ e.h \in Switches
              /\ Matching(e.h) = {}
              /\ e.kidsAfter[handles[e.h].element] = <<>>
              /\ InDom(kids, e.old)
              /\ Range(After(last.pre, e.h)) \cap Routes # {}

ShownNow(h) == shouldDisplayRoute(handles[h].path, handles[h].absolute, info, location)

\* the node at the position of route h is a marker made for it
IsMarkerOf(h, n) == n # handles[h].element /\ attr[n].path = handles[h].path

\* C19: after every change of the route state, an attached route binding
\* shows, when its display predicate is true, the very container node built
\* when route( ... ) was called, and a marker in its place when it is false.
C19_RouteKeepsItsContainer ==
    last.op = "goto" =>
        \A h \in Routes :
            InDom(kids, current[h]) =>
                IF ShownNow(h)
                THEN current[h] = handles[h].element
                ELSE /\ IsMarkerOf(h, current[h])
                     /\ ~InDom(kids, handles[h].element)

\* a mounted route hidden by one route change and shown again by the next,
\* its container back in the document
C19_Witness ==
    /\ last.op = "goto"
    /\ \E i \in DOMAIN last.log :
           LET e == last.log[i]
           IN /\ e.h \in Routes
              /\ ShownNow(e.h)
              /\ e.old # handles[e.h].element
              /\ attr[e.old].path = handles[e.h].path
              /\ e.curAfter = handles[e.h].element
              /\ InDom(kids, handles[e.h].element)

HasSetter(obs) == \E i \in DOMAIN obs : obs[i] # Hole /\ handles[obs[i]].kind = Setter

\* C20: a set on a state to which a render function that sets that state is
\* bound never returns to its caller; a set on a state none of whose
\* observers sets a state comes to its end having called each registered
\* observer.
C20_SetReturnsIffNoObserverSets ==
    (last.op = "set" /\ stack = <<>>) =>
        /\ ~HasSetter(last.pre)
        /\ last.threw = "none"
        /\ Called = Registered

\* the nested notifications of a self-setting binding, as deep as followed
C20_Witness ==
    /\ Len(stack) = MaxDepth
    /\ \A d \in 2..Len(stack) : handles[stack[d].by].kind = Setter
    /\ stack[1].by = 0

====
